---- MODULE Spec2Model ----
(***************************************************************************)
(* The chunk pipeline and language memory of AudioTranslator               *)
(* (src/any2en_.py), with the main loop that feeds it (AudioTranslator.run *)
(* and, in the same shape, main of src/ja2en_.py).                         *)
(*                                                                         *)
(* Texts are sequences of one-character strings, so that the joining and   *)
(* trimming of the recognised segments is computed and not assumed.        *)
(* Confidences are hundredths: 0.3 is 30, 1.0 is 100.                      *)
(***************************************************************************)
EXTENDS Integers, Sequences, FiniteSets, TLC

\* ------------------------------------------------------------------ bounds
\* The largest total of the frequency table's counts the model explores.
MaxCount == 3
\* The number of cycles of the main loop the model explores.
MaxCycles == 2

\* ------------------------------------------------------- program constants
\* is_valid_audio_file: os.path.getsize(audio_path) > 1024
MinBytes == 1024
\* confidence > 0.3, in hundredths
Threshold == 30
\* confidence = 1.0 for an explicit language, in hundredths
FullTrust == 100

\* ------------------------------------------------------------- input sets
\* Language codes a detection may report; "en" is the target language.
Languages == {"en", "ja", "zh"}
\* The language argument of an invocation: a code, or the sentinel "auto".
RequestedLanguages == {"auto", "en", "ja"}
\* The attribute `language` is absent from the backend's info object.
NoAttr == "<no attribute>"

\* A chunk's backing file: whether it exists, and its size in bytes.
AudioFiles ==
    {[exists |-> FALSE, size |-> 0]}
        \cup {[exists |-> TRUE, size |-> s] : s \in {500, 1024, 1025}}

\* What the detection-mode backend call does: raise, or return an info object
\* with (or without) the attributes language and language_probability.
DetectionOutcomes ==
    {[ok |-> FALSE, language |-> NoAttr, has_prob |-> FALSE, prob |-> 0]}
        \cup {[ok |-> TRUE, language |-> l, has_prob |-> TRUE, prob |-> p] :
                 l \in Languages, p \in {30, 31}}
        \cup {[ok |-> TRUE, language |-> NoAttr, has_prob |-> TRUE, prob |-> 92],
              [ok |-> TRUE, language |-> "ja", has_prob |-> FALSE, prob |-> 0]}

\* What a transcribe-task call does: raise, or return text segments.
TranscribeOutcomes ==
    {[ok |-> FALSE, segments |-> << >>],
     [ok |-> TRUE, segments |-> << >>],
     [ok |-> TRUE, segments |-> << <<" ">> >>],
     [ok |-> TRUE, segments |-> << <<" ", "k">>, <<"o", " ">> >>]}

\* What a translate-task call does: raise, or return text segments.
TranslateOutcomes ==
    {[ok |-> FALSE, segments |-> << >>],
     [ok |-> TRUE, segments |-> << <<" ">> >>],
     [ok |-> TRUE, segments |-> << <<" ", "h">>, <<"i">> >>]}

\* --------------------------------------------------------- text operations
\* "".join(seg.text for seg in segments)
RECURSIVE Join(_)
Join(segments) ==
    IF segments = << >> THEN << >>
    ELSE Head(segments) \o Join(Tail(segments))

IsSpace(c) == c = " "

RECURSIVE LStrip(_)
LStrip(t) ==
    IF t = << >> THEN << >>
    ELSE IF IsSpace(Head(t)) THEN LStrip(Tail(t)) ELSE t

RECURSIVE RStrip(_)
RStrip(t) ==
    IF t = << >> THEN << >>
    ELSE IF IsSpace(t[Len(t)]) THEN RStrip(SubSeq(t, 1, Len(t) - 1)) ELSE t

\* str.strip()
Strip(t) == RStrip(LStrip(t))

\* "".join(seg.text for seg in segments).strip()
SegmentsText(segments) == Strip(Join(segments))

\* ------------------------------------------------------- validity predicate
is_valid_audio_file_ge(file) == file.exists /\ file.size >= MinBytes

\* os.path.exists(audio_path) and os.path.getsize(audio_path) > 1024
is_valid_audio_file(file) == file.exists /\ file.size > MinBytes

\* --------------------------------------------------------- language memory
\* detected_lang_cache is a dict: a sequence of entries in insertion order.
CacheKeys(cache) == {cache[i].lang : i \in DOMAIN cache}

\* self.detected_lang_cache.get(lang, 0)
CacheGet(cache, lang) ==
    IF lang \in CacheKeys(cache)
    THEN (CHOOSE e \in {cache[i] : i \in DOMAIN cache} : e.lang = lang).count
    ELSE 0

\* cache[lang] = value: an existing key keeps its place, a new key goes last.
CacheSet(cache, lang, value) ==
    IF lang \in CacheKeys(cache)
    THEN [i \in DOMAIN cache |->
             IF cache[i].lang = lang THEN [lang |-> lang, count |-> value]
             ELSE cache[i]]
    ELSE Append(cache, [lang |-> lang, count |-> value])

CacheTotal(cache) ==
    LET RECURSIVE Sum(_)
        Sum(i) == IF i = 0 THEN 0 ELSE cache[i].count + Sum(i - 1)
    IN Sum(Len(cache))

cache_increment_forget(cache, lang) ==
    << [lang |-> lang, count |-> CacheGet(cache, lang) + 1] >>

\* self.detected_lang_cache[l] = self.detected_lang_cache.get(l, 0) + 1
cache_increment(cache, lang) == CacheSet(cache, lang, CacheGet(cache, lang) + 1)

\* max(d, key=d.get) scans the keys in insertion order and keeps the first
\* key whose count is strictly greater than every count before it.
RECURSIVE MaxScan(_, _, _)
MaxScan(cache, i, best) ==
    IF i > Len(cache) THEN cache[best].lang
    ELSE IF cache[i].count > cache[best].count THEN MaxScan(cache, i + 1, i)
    ELSE MaxScan(cache, i + 1, best)

RECURSIVE MaxScanLast(_, _, _)
MaxScanLast(cache, i, best) ==
    IF i > Len(cache) THEN cache[best].lang
    ELSE IF cache[i].count >= cache[best].count THEN MaxScanLast(cache, i + 1, i)
    ELSE MaxScanLast(cache, i + 1, best)

most_common_last(cache) == MaxScanLast(cache, 2, 1)

\* max(self.detected_lang_cache, key=self.detected_lang_cache.get)
most_common(cache) == MaxScan(cache, 2, 1)

\* ------------------------------------------------------- detect_language
\* The result of detect_language: the pair it returns, self.last_detected_lang
\* after it, and the number of backend calls it made.
Detection(lang, conf, last, calls) ==
    [lang |-> lang, conf |-> conf, last |-> last, calls |-> calls]

detect_language_any_confidence(file, det, last) ==
    IF ~is_valid_audio_file(file) THEN Detection(last, 0, last, 0)
    ELSE IF ~det.ok THEN Detection(last, 0, last, 1)
    ELSE LET detected_lang ==
                 IF det.language = NoAttr THEN last ELSE det.language
             confidence == IF det.has_prob THEN det.prob ELSE 0
         IN Detection(detected_lang, confidence, detected_lang, 1)

detect_language(file, det, last) ==
    IF ~is_valid_audio_file(file) THEN Detection(last, 0, last, 0)
    ELSE IF ~det.ok THEN Detection(last, 0, last, 1)
    ELSE LET detected_lang ==
                 IF det.language = NoAttr THEN last ELSE det.language
             confidence == IF det.has_prob THEN det.prob ELSE 0
         IN Detection(detected_lang, confidence,
                      IF confidence > Threshold THEN detected_lang ELSE last,
                      1)

\* -------------------------------------------------- transcribe_and_translate
detection_step_always(source_lang, file, det, last) ==
    detect_language(file, det, last)

\* if source_lang == "auto": detect_language(...)
\* else: detected_lang = source_lang; confidence = 1.0
detection_step(source_lang, file, det, last) ==
    IF source_lang = "auto" THEN detect_language(file, det, last)
    ELSE Detection(source_lang, FullTrust, last, 0)

cache_update_any_language(source_lang, d, cache) ==
    IF source_lang = "auto" /\ d.conf > Threshold
    THEN cache_increment(cache, d.lang)
    ELSE cache

\* Cache frequently detected languages (only non-English)
cache_update(source_lang, d, cache) ==
    IF source_lang = "auto" /\ d.lang # "en" /\ d.conf > Threshold
    THEN cache_increment(cache, d.lang)
    ELSE cache

resolve_language_keep_requested(source_lang, d, cache) ==
    IF source_lang = "auto"
    THEN IF d.conf > Threshold THEN d.lang
         ELSE IF cache # << >> THEN most_common(cache)
         ELSE source_lang
    ELSE source_lang

resolve_language_last_first(source_lang, d, cache) ==
    IF source_lang = "auto"
    THEN IF d.conf > Threshold THEN d.lang
         ELSE IF d.last # "" THEN d.last
         ELSE most_common(cache)
    ELSE source_lang

\* The value of source_lang after the language has been determined.
resolve_language(source_lang, d, cache) ==
    IF source_lang = "auto"
    THEN IF d.conf > Threshold THEN d.lang
         ELSE IF cache # << >> THEN most_common(cache)
         ELSE d.last
    ELSE source_lang

skip_translation_both(original_text, source_lang) ==
    original_text = << >> /\ source_lang = "en"

\* if not original_text or source_lang == "en"
skip_translation(original_text, source_lang) ==
    original_text = << >> \/ source_lang = "en"

\* if not translated_text and original_text: translated_text = original_text
translation_fallback(original_text, translated_text) ==
    IF translated_text = << >> /\ original_text # << >> THEN original_text
    ELSE translated_text

\* How an execution of the try block ends: by a return (exc = FALSE) or by an
\* exception (exc = TRUE), with the locals and the memory at that point.
\* original_text is the local of that name (empty while unassigned).
Outcome(exc, original, translated, lang, d, cache, original_text, transcribe_calls, translate_calls) ==
    [exc |-> exc, original |-> original, translated |-> translated,
     lang |-> lang, cache |-> cache, last |-> d.last,
     original_text |-> original_text, detect_calls |-> d.calls,
     transcribe_calls |-> transcribe_calls,
     translate_calls |-> translate_calls]

\* The try block of transcribe_and_translate.
try_block(file, source_lang, det, tr, tl, cache, last) ==
    LET d == detection_step(source_lang, file, det, last)
        cache1 == cache_update(source_lang, d, cache)
        lang == resolve_language(source_lang, d, cache1)
    IN IF ~tr.ok
       THEN Outcome(TRUE, << >>, << >>, lang, d, cache1, << >>, 1, 0)
       ELSE LET original_text == SegmentsText(tr.segments)
            IN IF skip_translation(original_text, lang)
               THEN Outcome(FALSE, original_text, original_text, lang, d,
                            cache1, original_text, 1, 0)
               ELSE IF ~tl.ok
               THEN Outcome(TRUE, << >>, << >>, lang, d, cache1,
                            original_text, 1, 1)
               ELSE Outcome(FALSE, original_text,
                            translation_fallback(original_text,
                                                 SegmentsText(tl.segments)),
                            lang, d, cache1, original_text, 1, 1)

except_handler_reraise(o) == o

\* except Exception: return "", "", source_lang
except_handler(o) ==
    IF o.exc
    THEN [o EXCEPT !.exc = FALSE, !.original = << >>, !.translated = << >>]
    ELSE o

transcribe_and_translate(file, source_lang, det, tr, tl, cache, last) ==
    IF ~is_valid_audio_file(file)
    THEN Outcome(FALSE, << >>, << >>, source_lang,
                 Detection(source_lang, 0, last, 0), cache, << >>, 0, 0)
    ELSE except_handler(try_block(file, source_lang, det, tr, tl, cache, last))

\* ------------------------------------------------------------------ state
VARIABLES
    detected_lang_cache,  \* self.detected_lang_cache
    last_detected_lang,   \* self.last_detected_lang
    chunk_count,          \* self.chunk_count
    args_language,        \* self.args.language
    pc,                   \* where the caller of the pipeline stands
    cycle,                \* the number of the main loop's current cycle
    tmp_file,             \* the file at tmp_path
    acquired,             \* cycles whose temporary file has been created
    released,             \* cycles whose os.remove(tmp_path) has been called
    interrupted,          \* a KeyboardInterrupt has been raised
    inv                   \* the latest invocation of the pipeline

vars == <<detected_lang_cache, last_detected_lang, chunk_count, args_language,
          pc, cycle, tmp_file, acquired, released, interrupted, inv>>

NoFile == [exists |-> FALSE, size |-> 0]

\* Invocation i made a detection call that reported a language other than
\* "en" with a confidence above the threshold.
DetectedNonEnglish(i) ==
    /\ i.done
    /\ i.out.detect_calls > 0
    /\ i.det.ok
    /\ i.det.has_prob
    /\ i.det.prob > Threshold
    /\ (IF i.det.language = NoAttr THEN i.pre_last ELSE i.det.language) # "en"

\* The record of an invocation: its arguments, what the backend did, the
\* memory before it, how it ended, and whether an earlier invocation of the
\* run detected a language other than "en" with trust.
Invocation(n, file, source_lang, det, tr, tl, out) ==
    [done |-> TRUE, cycle |-> n, file |-> file, requested |-> source_lang,
     det |-> det, tr |-> tr, tl |-> tl,
     pre_cache |-> detected_lang_cache, pre_last |-> last_detected_lang,
     out |-> out,
     non_english_before |-> inv.non_english_before \/ DetectedNonEnglish(inv)]

NoInvocation ==
    [done |-> FALSE, cycle |-> 0, file |-> NoFile, requested |-> "auto",
     det |-> [ok |-> FALSE, language |-> NoAttr, has_prob |-> FALSE, prob |-> 0],
     tr |-> [ok |-> FALSE, segments |-> << >>],
     tl |-> [ok |-> FALSE, segments |-> << >>],
     pre_cache |-> << >>, pre_last |-> "en",
     out |-> Outcome(FALSE, << >>, << >>, "auto",
                     Detection("auto", 0, "en", 0), << >>, << >>, 0, 0),
     non_english_before |-> FALSE]

\* AudioTranslator.__init__
Init ==
    /\ detected_lang_cache = << >>
    /\ last_detected_lang = "en"
    /\ chunk_count = 0
    /\ args_language \in RequestedLanguages
    /\ pc = "idle"
    /\ cycle = 0
    /\ tmp_file = NoFile
    /\ acquired = {}
    /\ released = {}
    /\ interrupted = FALSE
    /\ inv = NoInvocation

\* The backend answers only the calls that are made: an outcome is drawn for
\* a call when the invocation, run with the outcomes drawn so far, reaches it.
DetectionFails == [ok |-> FALSE, language |-> NoAttr, has_prob |-> FALSE, prob |-> 0]
TextFails == [ok |-> FALSE, segments |-> << >>]

Run(file, source_lang, det, tr, tl) ==
    transcribe_and_translate(file, source_lang, det, tr, tl,
                             detected_lang_cache, last_detected_lang)

DetectionAnswers(file, source_lang) ==
    IF Run(file, source_lang, DetectionFails, TextFails, TextFails).detect_calls > 0
    THEN DetectionOutcomes ELSE {DetectionFails}

TranscribeAnswers(file, source_lang, det) ==
    IF Run(file, source_lang, det, TextFails, TextFails).transcribe_calls > 0
    THEN TranscribeOutcomes ELSE {TextFails}

TranslateAnswers(file, source_lang, det, tr) ==
    IF Run(file, source_lang, det, tr, TextFails).translate_calls > 0
    THEN TranslateOutcomes ELSE {TextFails}

\* One call of transcribe_and_translate(audio_path, source_lang) on the
\* translator, in cycle n of the main loop (0: outside the loop).
Pipeline(n, file, source_lang) ==
    \E det \in DetectionAnswers(file, source_lang) :
    \E tr \in TranscribeAnswers(file, source_lang, det) :
    \E tl \in TranslateAnswers(file, source_lang, det, tr) :
       LET out == Run(file, source_lang, det, tr, tl)
       IN /\ CacheTotal(out.cache) <= MaxCount
          /\ detected_lang_cache' = out.cache
          /\ last_detected_lang' = out.last
          /\ inv' = Invocation(n, file, source_lang, det, tr, tl, out)

\* A caller other than run() invokes the pipeline on the translator.
Invoke ==
    /\ pc = "idle"
    /\ \E file \in AudioFiles, source_lang \in RequestedLanguages :
          Pipeline(0, file, source_lang)
    /\ UNCHANGED <<chunk_count, args_language, pc, cycle, tmp_file, acquired,
                   released, interrupted>>

\* run(): the model is loaded and the main loop is entered.
RunStart ==
    /\ pc = "idle"
    /\ pc' = "acquire"
    /\ cycle' = 1
    /\ UNCHANGED <<detected_lang_cache, last_detected_lang, chunk_count,
                   args_language, tmp_file, acquired, released, interrupted,
                   inv>>

\* with tempfile.NamedTemporaryFile(suffix=".wav", delete=False) as tmp
Acquire ==
    /\ pc = "acquire"
    /\ cycle <= MaxCycles
    /\ tmp_file' = [exists |-> TRUE, size |-> 0]
    /\ acquired' = acquired \cup {cycle}
    /\ pc' = "enter_try"
    /\ UNCHANGED <<detected_lang_cache, last_detected_lang, chunk_count,
                   args_language, cycle, released, interrupted, inv>>

\* The inner try statement is entered.
EnterTry ==
    /\ pc = "enter_try"
    /\ pc' = "record"
    /\ UNCHANGED <<detected_lang_cache, last_detected_lang, chunk_count,
                   args_language, cycle, tmp_file, acquired, released,
                   interrupted, inv>>

\* record_chunk: ffmpeg writes the chunk (True), or fails (False).
Record ==
    /\ pc = "record"
    /\ \/ \E s \in {500, 1024, 1025} :
             /\ tmp_file' = [exists |-> TRUE, size |-> s]
             /\ pc' = "process"
       \/ /\ tmp_file' = tmp_file
          /\ pc' = "finally"
    /\ UNCHANGED <<detected_lang_cache, last_detected_lang, chunk_count,
                   args_language, cycle, acquired, released, interrupted, inv>>

\* display_result: nothing is shown, and nothing counted, for an empty result.
display_result(original, translated) ==
    IF translated = << >> /\ original = << >> THEN chunk_count
    ELSE chunk_count + 1

\* if self.is_valid_audio_file(tmp_path): transcribe_and_translate, and
\* display_result if original or translated.
Process ==
    /\ pc = "process"
    /\ \/ /\ is_valid_audio_file(tmp_file)
          /\ Pipeline(cycle, tmp_file, args_language)
          /\ chunk_count' =
                 IF inv'.out.exc THEN chunk_count
                 ELSE display_result(inv'.out.original, inv'.out.translated)
       \/ /\ ~is_valid_audio_file(tmp_file)
          /\ UNCHANGED <<detected_lang_cache, last_detected_lang, chunk_count,
                         inv>>
    /\ pc' = "finally"
    /\ UNCHANGED <<args_language, cycle, tmp_file, acquired, released,
                   interrupted>>

\* finally: os.remove(tmp_path), an OSError ignored; then the next cycle, or
\* the end of the loop when a KeyboardInterrupt is on its way out.
Finally ==
    /\ pc = "finally"
    /\ released' = released \cup {cycle}
    /\ \/ tmp_file' = NoFile
       \/ tmp_file' = tmp_file
    /\ IF interrupted
       THEN pc' = "stopped" /\ cycle' = cycle
       ELSE pc' = "acquire" /\ cycle' = cycle + 1
    /\ UNCHANGED <<detected_lang_cache, last_detected_lang, chunk_count,
                   args_language, acquired, interrupted, inv>>

\* Ctrl+C: a KeyboardInterrupt is raised where the loop stands. Inside the
\* inner try it passes through the finally clause; outside it (and inside the
\* finally clause, before os.remove is called) it goes straight to
\* except KeyboardInterrupt.
Interrupt ==
    /\ pc \in {"acquire", "enter_try", "record", "process", "finally"}
    /\ interrupted' = TRUE
    /\ pc' = IF pc \in {"record", "process"} THEN "finally" ELSE "stopped"
    /\ UNCHANGED <<detected_lang_cache, last_detected_lang, chunk_count,
                   args_language, cycle, tmp_file, acquired, released, inv>>

Next ==
    \/ Invoke
    \/ RunStart
    \/ Acquire
    \/ EnterTry
    \/ Record
    \/ Process
    \/ Finally
    \/ Interrupt

Spec == Init /\ [][Next]_vars

\* ================================================================ claims
\* The validity predicate as the specification states it.
Usable(file) == file.exists /\ file.size > 1024

\* The detection of the latest invocation took place and reported a
\* confidence above 0.3 (a failed detection counts as confidence 0).
DetectedWithConfidence ==
    /\ inv.out.detect_calls > 0
    /\ inv.det.ok
    /\ inv.det.has_prob
    /\ inv.det.prob > 30

\* The language that detection reported.
DetectedLanguage ==
    IF inv.det.language = NoAttr THEN inv.pre_last ELSE inv.det.language

\* The text the primary transcription of the latest invocation returned
\* (empty when the call was not made or failed).
TranscribedText ==
    IF inv.out.transcribe_calls > 0 /\ inv.tr.ok
    THEN SegmentsText(inv.tr.segments)
    ELSE << >>

\* The key of the first entry, in insertion order, that holds the highest count.
FirstMax(cache) ==
    LET i == CHOOSE k \in DOMAIN cache :
                 /\ \A j \in DOMAIN cache : cache[j].count <= cache[k].count
                 /\ \A j \in 1..(k - 1) : cache[j].count < cache[k].count
    IN cache[i].lang

\* C1 (as claimed): when the primary transcription succeeds with non-empty
\* text and the translate call fails, the invocation returns the transcribed
\* text as originalText and as translatedText, and raises nothing.
C1_TranslateFailureKeepsOriginal ==
    (/\ inv.done
     /\ Usable(inv.file)
     /\ TranscribedText # << >>
     /\ inv.out.translate_calls > 0
     /\ ~inv.tl.ok)
        => /\ ~inv.out.exc
           /\ inv.out.original = TranscribedText
           /\ inv.out.translated = inv.out.original

\* C2 (as claimed): the resolved language of a completed invocation is never
\* the sentinel "auto".
C2_NeverAuto == inv.done => inv.out.lang # "auto"

\* C2 (amended): on a usable chunk the resolved language of a completed
\* invocation is never "auto"; on an unusable chunk the result carries the
\* requested language unchanged.
C2_NeverAutoOnUsableChunk ==
    inv.done =>
        IF Usable(inv.file) THEN inv.out.lang # "auto"
        ELSE inv.out.lang = inv.requested

C2_Witness ==
    /\ inv.done
    /\ Usable(inv.file)
    /\ inv.requested = "auto"
    /\ ~DetectedWithConfidence
    /\ inv.pre_cache = << >>
    /\ inv.out.lang = "en"

C4_UnusableChunkShortCircuits ==
    (inv.done /\ ~Usable(inv.file))
        => /\ inv.out.original = << >>
           /\ inv.out.translated = << >>
           /\ inv.out.detect_calls = 0
           /\ inv.out.transcribe_calls = 0
           /\ inv.out.translate_calls = 0

C4_Witness ==
    /\ inv.done
    /\ inv.file = [exists |-> TRUE, size |-> 500]
    /\ inv.requested = "auto"
    /\ inv.out.original = << >>
    /\ inv.out.transcribe_calls = 0

\* C5: no invocation ends by raising, whatever the backend did, and the main
\* loop ends only by an interrupt, never because a chunk failed.
C5_FailuresAbsorbed ==
    /\ inv.done => ~inv.out.exc
    /\ pc = "stopped" => interrupted

C5_Witness ==
    /\ pc = "record"
    /\ cycle = 2
    /\ ~interrupted
    /\ inv.done
    /\ inv.cycle = 1
    /\ inv.out.transcribe_calls > 0
    /\ ~inv.tr.ok
    /\ ~inv.out.exc

\* C6: with "auto" requested and a detection confidence <= 0.3 (a failed
\* detection included), the resolved language is the first-inserted entry of
\* highest count of the frequency table, or lastConfirmed when the table is
\* empty.
C6_LowConfidenceFallback ==
    (/\ inv.done
     /\ Usable(inv.file)
     /\ inv.requested = "auto"
     /\ ~DetectedWithConfidence)
        => IF inv.pre_cache # << >>
           THEN inv.out.lang = FirstMax(inv.pre_cache)
           ELSE inv.out.lang = inv.pre_last

C6_Witness ==
    /\ inv.done
    /\ Usable(inv.file)
    /\ inv.requested = "auto"
    /\ ~DetectedWithConfidence
    /\ Len(inv.pre_cache) = 2
    /\ inv.pre_cache[1].count = inv.pre_cache[2].count
    /\ inv.out.lang = inv.pre_cache[1].lang

\* C7: a translate call is made only if the primary transcription returned
\* non-empty text and the resolved language is not "en"; when the resolved
\* language is "en" or the transcribed text is empty, translatedText equals
\* originalText and no translate call is made.
C7_TranslateOnlyWhenNeeded ==
    inv.done =>
        /\ inv.out.translate_calls > 0
              => TranscribedText # << >> /\ inv.out.lang # "en"
        /\ (inv.out.lang = "en" \/ TranscribedText = << >>)
              => /\ inv.out.translated = inv.out.original
                 /\ inv.out.translate_calls = 0

C7_Witness ==
    /\ inv.done
    /\ inv.out.lang = "en"
    /\ TranscribedText # << >>
    /\ inv.out.original = TranscribedText
    /\ inv.out.translated = inv.out.original
    /\ inv.out.translate_calls = 0

\* C8: an invocation with an explicit requested language leaves lastConfirmed
\* and the frequency table as they were and makes no detection call.
C8_ExplicitLanguageKeepsMemory ==
    (inv.done /\ inv.requested # "auto")
        => /\ detected_lang_cache = inv.pre_cache
           /\ last_detected_lang = inv.pre_last
           /\ inv.out.detect_calls = 0

C8_Witness ==
    /\ inv.done
    /\ inv.requested = "ja"
    /\ Usable(inv.file)
    /\ inv.pre_cache # << >>
    /\ inv.pre_last = "zh"
    /\ inv.out.translate_calls > 0
    /\ last_detected_lang = "zh"

\* C9: no step removes an entry of the frequency table or lowers a count, and
\* a step raises the counts by at most 1 in total.
C9_CountsOnlyGrow ==
    [][/\ Len(detected_lang_cache') >= Len(detected_lang_cache)
       /\ \A i \in DOMAIN detected_lang_cache :
             /\ detected_lang_cache'[i].lang = detected_lang_cache[i].lang
             /\ detected_lang_cache'[i].count >= detected_lang_cache[i].count
       /\ CacheTotal(detected_lang_cache') - CacheTotal(detected_lang_cache)
             \in {0, 1}]_vars

C9_Witness ==
    /\ Len(detected_lang_cache) = 2
    /\ detected_lang_cache[1].count = 2
    /\ detected_lang_cache[2].count = 1

\* C10 (as claimed): the removal of every temporary file the loop has created
\* has been attempted before the next capture begins and when the loop has
\* stopped, whatever ended the cycle.
C10_EveryChunkReleased ==
    /\ pc \in {"enter_try", "record", "process", "finally"}
          => acquired \ {cycle} \subseteq released
    /\ pc = "acquire" => acquired \subseteq released
    /\ pc = "stopped" => acquired \subseteq released

C12_TableNeverEnglish ==
    /\ \A i \in DOMAIN detected_lang_cache : detected_lang_cache[i].lang # "en"
    /\ (/\ inv.done
        /\ inv.non_english_before
        /\ Usable(inv.file)
        /\ inv.requested = "auto"
        /\ ~DetectedWithConfidence)
           => /\ inv.out.lang # "en"
              /\ \E i \in DOMAIN inv.pre_cache :
                    inv.pre_cache[i].lang = inv.out.lang

\* A low-confidence chunk resolved from the table although the last trusted
\* detection before it was "en".
C12_Witness ==
    /\ inv.done
    /\ inv.non_english_before
    /\ Usable(inv.file)
    /\ inv.requested = "auto"
    /\ ~DetectedWithConfidence
    /\ inv.pre_last = "en"
    /\ inv.out.lang = "ja"

====
